---- MODULE Spec2Model ----
\* Model of src/thread/jthread.cpp: main() starts three std::thread objects
\* running worker(1), worker(2), worker(3), joins them in that order and
\* returns 0.  Each worker takes a start timestamp, loops ten times (worker 1
\* writes a notice and yields, every worker sleeps 100 ms), takes an end
\* timestamp and writes a summary line to std::cout.
EXTENDS Integers, Sequences, FiniteSets, TLC

\* ---------------------------------------------------------------- constants
NumWorkers == 3
NumIter == 10
YieldId == 1
SleepMs == 100
NsPerMs == 1000000

Workers == 1..NumWorkers

\* ---------------------------------------------------------------- bounds
\* sleep_for blocks for AT LEAST the requested duration.  The lateness values
\* explored are "on time" and, for j = 1..MaxLate, just below and exactly
\* j half-periods (j * 50 ms).  Time is counted per thread: the threads never
\* compare clock readings, so only each thread's own differences matter.
MaxLate == 1

VARIABLES
    mpc,        \* main's position: <<"t", k>> (line 42 + k), <<"join", k>> (line
                \* 46 + k), <<"return", 0>> (line 51), <<"done", 0>> (returned)
    status,     \* the process: "running", "exit0" (main returned 0), "aborted"
    joinable,   \* joinable[k]: std::thread handle t<k> owns a thread
    pc,         \* pc[k]: position of the thread of handle t<k>
    id,         \* id[k]: worker's parameter id (0 before the thread exists)
    i,          \* i[k]: worker's loop counter
    frag,       \* frag[k]: number of << insertions done of the current statement
    starting,   \* starting[k]: worker's start timestamp (ns)
    ending,     \* ending[k]: worker's end timestamp (ns)
    duration,   \* duration[k]: duration.count(), whole milliseconds
    clock,      \* clock[k]: reading of high_resolution_clock on thread k's timeline
    load,       \* this run's lateness (ns): how much later than the requested
                \* 100 ms a thread is at its next sleep_for, per iteration
    cur,        \* std::cout: the characters written since the last '\n', as fragments
    lines,      \* std::cout: prefix of each complete line written so far -> count
    mixed,      \* bookkeeping: some fragment was inserted while the unfinished
                \* line held other text than the inserting thread's own fragments
    log,        \* log[k]: what thread k has done so far, in its own order
    order       \* bookkeeping: the handles whose thread has returned, in the
                \* order in which they returned

vars == <<mpc, status, joinable, pc, id, i, frag, starting, ending, duration,
          clock, load, cur, lines, mixed, log, order>>

wvars == <<pc, id, i, frag, starting, ending, duration, clock, load, log>>

\* ---------------------------------------------------------------- output
\* One operator<< insertion: a string literal, or an integer.
Lit(s) == <<s, 0>>
Num(n) == <<"#", n>>

\* Variant of NoticeLine: the id insertion is left out.
NoticeLineNoId(idv) == << Lit("Thread "), Lit(" is yielding...\n") >>

\* Line 27: std::cout << "Thread " << id << " is yielding...\n";
NoticeLine(idv) == << Lit("Thread "), Num(idv), Lit(" is yielding...\n") >>

\* Line 39: std::cout << "Thread " << id << " finished execution in "
\*                    << duration.count() << " milliseconds\n";
SummaryLine(idv, count) ==
    << Lit("Thread "), Num(idv), Lit(" finished execution in "),
       Num(count), Lit(" milliseconds\n") >>

\* The fragments that carry the newline.
EndsLine(f) == f \in {Lit(" is yielding...\n"), Lit(" milliseconds\n")}

Prefixes ==
    {<<"yielding", k>> : k \in Workers} \cup {<<"finished", k>> : k \in Workers}
        \cup {<<"garbled", 0>>}

\* What a complete line of the output reads as; text is its fragments.
LinePrefix(text) ==
    IF Len(text) = 3 /\ text[1] = Lit("Thread ") /\ text[2][1] = "#"
         /\ text[2][2] \in Workers /\ text[3] = Lit(" is yielding...\n")
      THEN <<"yielding", text[2][2]>>
    ELSE IF Len(text) = 5 /\ text[1] = Lit("Thread ") /\ text[2][1] = "#"
         /\ text[2][2] \in Workers /\ text[3] = Lit(" finished execution in ")
         /\ text[4][1] = "#" /\ text[5] = Lit(" milliseconds\n")
      THEN <<"finished", text[2][2]>>
    ELSE <<"garbled", 0>>

\* std::cout receives fragment f: it is appended to the stream.  own is what
\* the inserting thread has already written of the same line.
Insert(f, own) ==
    /\ IF EndsLine(f)
         THEN /\ lines' = [lines EXCEPT ![LinePrefix(Append(cur, f))] = @ + 1]
              /\ cur' = <<>>
         ELSE /\ cur' = Append(cur, f)
              /\ UNCHANGED lines
    /\ mixed' = (mixed \/ cur # own)

\* ---------------------------------------------------------------- worker
\* Variant of LoopHead: the loop test reads i <= 10.
LoopHeadOffByOne(idv, iv) ==
    IF iv <= NumIter
      THEN IF idv = YieldId THEN "notice" ELSE "sleep"
      ELSE "end"

\* Line 25-26: the loop test and the id test, from counter value iv.
LoopHead(idv, iv) ==
    IF iv < NumIter
      THEN IF idv = YieldId THEN "notice" ELSE "sleep"
      ELSE "end"

\* Variant of Flow: the sleep is at the top of the loop body, before the notice.
FlowSleepFirst(p, idv, iv) ==
    CASE p = "start"   -> IF iv < NumIter THEN "sleep" ELSE "end"
      [] p = "sleep"   -> IF idv = YieldId THEN "notice"
                          ELSE IF iv < NumIter THEN "sleep" ELSE "end"
      [] p = "notice"  -> "yield"
      [] p = "yield"   -> IF iv < NumIter THEN "sleep" ELSE "end"
      [] p = "end"     -> "summary"
      [] p = "summary" -> "done"

\* Lines 23-40: the statement that follows statement p of worker(idv), with the
\* loop counter at iv once p is done.
Flow(p, idv, iv) ==
    CASE p = "start"   -> LoopHead(idv, iv)
      [] p = "notice"  -> "yield"
      [] p = "yield"   -> "sleep"
      [] p = "sleep"   -> LoopHead(idv, iv)
      [] p = "end"     -> "summary"
      [] p = "summary" -> "done"

\* Variant of DurationCast: the operands of the subtraction are swapped.
DurationCastSwapped(e, s) == (s - e) \div NsPerMs

\* Line 37: duration_cast<milliseconds>(ending - starting), truncating.
DurationCast(e, s) == (e - s) \div NsPerMs

\* Line 30: sleep_for(100 ms) returns no earlier than 100 ms later.
SleepNs == SleepMs * NsPerMs
HalfPeriod == SleepNs \div 2
Lateness == {0} \cup {j * HalfPeriod - 1 : j \in 1..MaxLate}
                \cup {j * HalfPeriod : j \in 1..MaxLate}

Alive(w) == status = "running" /\ pc[w] \notin {"created", "done"}

\* Line 23: auto starting = now();  then the loop is entered with i = 0.
Start(w) ==
    /\ Alive(w) /\ pc[w] = "start"
    /\ starting' = [starting EXCEPT ![w] = clock[w]]
    /\ i' = [i EXCEPT ![w] = 0]
    /\ pc' = [pc EXCEPT ![w] = Flow("start", id[w], 0)]
    /\ UNCHANGED <<mpc, status, joinable, id, frag, ending, duration, clock,
                   load, cur, lines, mixed, log>>
    /\ UNCHANGED order

\* Line 27: one << insertion of the notice; after the last one, line 28 is next.
Notice(w) ==
    /\ Alive(w) /\ pc[w] = "notice"
    /\ LET line == NoticeLine(id[w])
           last == frag[w] + 1 = Len(line)
       IN /\ Insert(line[frag[w] + 1], SubSeq(line, 1, frag[w]))
          /\ frag' = [frag EXCEPT ![w] = IF last THEN 0 ELSE @ + 1]
          /\ pc' = [pc EXCEPT ![w] = IF last THEN Flow("notice", id[w], i[w]) ELSE @]
          /\ log' = [log EXCEPT ![w] = IF last THEN Append(@, "notice") ELSE @]
    /\ UNCHANGED <<mpc, status, joinable, id, i, starting, ending, duration,
                   clock, load>>
    /\ UNCHANGED order

\* Variant of Yield: the call blocks until main has constructed all threads.
YieldBlocking(w) ==
    /\ Alive(w) /\ pc[w] = "yield" /\ mpc[1] # "t"
    /\ pc' = [pc EXCEPT ![w] = Flow("yield", id[w], i[w])]
    /\ log' = [log EXCEPT ![w] = Append(@, "yield")]
    /\ UNCHANGED <<mpc, status, joinable, id, i, frag, starting, ending,
                   duration, clock, load, cur, lines, mixed>>
    /\ UNCHANGED order

\* Line 28: std::this_thread::yield();
Yield(w) ==
    /\ Alive(w) /\ pc[w] = "yield"
    /\ pc' = [pc EXCEPT ![w] = Flow("yield", id[w], i[w])]
    /\ log' = [log EXCEPT ![w] = Append(@, "yield")]
    /\ UNCHANGED <<mpc, status, joinable, id, i, frag, starting, ending,
                   duration, clock, load, cur, lines, mixed>>
    /\ UNCHANGED order

\* Line 30, then ++i and the loop test of line 25.
Sleep(w) ==
    /\ Alive(w) /\ pc[w] = "sleep"
    /\ clock' = [clock EXCEPT ![w] = @ + SleepNs + load]
    /\ i' = [i EXCEPT ![w] = @ + 1]
    /\ pc' = [pc EXCEPT ![w] = Flow("sleep", id[w], i[w] + 1)]
    /\ log' = [log EXCEPT ![w] = Append(@, "sleep")]
    /\ UNCHANGED <<mpc, status, joinable, id, frag, starting, ending,
                   duration, load, cur, lines, mixed>>
    /\ UNCHANGED order

\* Variant of End: ending is one variable shared by all workers.
EndShared(w) ==
    /\ Alive(w) /\ pc[w] = "end"
    /\ ending' = [o \in Workers |-> clock[w]]
    /\ duration' = [duration EXCEPT ![w] = DurationCast(clock[w], starting[w])]
    /\ pc' = [pc EXCEPT ![w] = Flow("end", id[w], i[w])]
    /\ UNCHANGED <<mpc, status, joinable, id, i, frag, starting, clock, load,
                   cur, lines, mixed, log>>
    /\ UNCHANGED order

\* Lines 34-37: auto ending = now(); auto duration = duration_cast<ms>(...).
End(w) ==
    /\ Alive(w) /\ pc[w] = "end"
    /\ ending' = [ending EXCEPT ![w] = clock[w]]
    /\ duration' = [duration EXCEPT ![w] = DurationCast(clock[w], starting[w])]
    /\ pc' = [pc EXCEPT ![w] = Flow("end", id[w], i[w])]
    /\ UNCHANGED <<mpc, status, joinable, id, i, frag, starting, clock, load,
                   cur, lines, mixed, log>>
    /\ UNCHANGED order

\* Line 39: one << insertion of the summary; after the last one worker returns.
Summary(w) ==
    /\ Alive(w) /\ pc[w] = "summary"
    /\ LET line == SummaryLine(id[w], duration[w])
           last == frag[w] + 1 = Len(line)
       IN /\ Insert(line[frag[w] + 1], SubSeq(line, 1, frag[w]))
          /\ frag' = [frag EXCEPT ![w] = IF last THEN 0 ELSE @ + 1]
          /\ pc' = [pc EXCEPT ![w] = IF last THEN Flow("summary", id[w], i[w]) ELSE @]
          /\ log' = [log EXCEPT ![w] = IF last THEN Append(@, "summary") ELSE @]
          /\ order' = IF last THEN Append(order, w) ELSE order
    /\ UNCHANGED <<mpc, status, joinable, id, i, starting, ending, duration,
                   clock, load>>

\* ---------------------------------------------------------------- main
\* Variant of LaunchArg: every thread is given the same id.
LaunchArgSame(k) == 1

\* Lines 43-45: the argument bound to the k-th thread.
LaunchArg(k) == k

\* Variant of JoinTarget: t1 is joined again in place of t2.
JoinTargetFirst(k) == IF k = 2 THEN 1 ELSE k

\* Lines 47-49: the handle the k-th join statement waits on.
JoinTarget(k) == k

\* Variant of AfterLaunch: t3 is constructed before t2.
AfterLaunchSwapped(k) ==
    IF k = 1 THEN <<"t", 3>> ELSE IF k = 3 THEN <<"t", 2>> ELSE <<"join", 1>>

\* Lines 43-47: after the k-th constructor comes the next one, then the joins.
AfterLaunch(k) == IF k < NumWorkers THEN <<"t", k + 1>> ELSE <<"join", 1>>

\* Variant of AfterJoin: the last join statement is missing.
AfterJoinEarly(k) ==
    IF k < NumWorkers - 1 THEN <<"join", k + 1>> ELSE <<"return", 0>>

\* Lines 47-51: after the k-th join comes the next one, then return 0.
AfterJoin(k) == IF k < NumWorkers THEN <<"join", k + 1>> ELSE <<"return", 0>>

\* Lines 43-45: std::thread t<k>(worker, k) starts the thread ...
Launch(k) ==
    /\ status = "running" /\ mpc = <<"t", k>>
    /\ pc' = [pc EXCEPT ![k] = "start"]
    /\ id' = [id EXCEPT ![k] = LaunchArg(k)]
    /\ joinable' = [joinable EXCEPT ![k] = TRUE]
    /\ mpc' = AfterLaunch(k)
    /\ UNCHANGED <<status, i, frag, starting, ending, duration, clock, load,
                   cur, lines, mixed, log>>
    /\ UNCHANGED order

\* Variant of LaunchFails: the failure is swallowed and main goes on without
\* the thread.
LaunchFailsIgnored(k) ==
    /\ status = "running" /\ mpc = <<"t", k>>
    /\ mpc' = AfterLaunch(k)
    /\ UNCHANGED <<status, joinable, wvars, cur, lines, mixed>>
    /\ UNCHANGED order

\* ... or throws std::system_error when no thread can be started; main has no
\* handler, so std::terminate() ends the process.
LaunchFails(k) ==
    /\ status = "running" /\ mpc = <<"t", k>>
    /\ status' = "aborted"
    /\ UNCHANGED <<mpc, joinable, wvars, cur, lines, mixed>>
    /\ UNCHANGED order

\* Lines 47-49: t.join() blocks until the thread has finished; on a handle
\* that is not joinable it throws std::system_error (uncaught: terminate).
Join(k) ==
    /\ status = "running" /\ mpc = <<"join", k>>
    /\ LET t == JoinTarget(k)
       IN IF joinable[t]
            THEN /\ pc[t] = "done"
                 /\ joinable' = [joinable EXCEPT ![t] = FALSE]
                 /\ mpc' = AfterJoin(k)
                 /\ UNCHANGED status
            ELSE /\ status' = "aborted"
                 /\ UNCHANGED <<mpc, joinable>>
    /\ UNCHANGED <<wvars, cur, lines, mixed>>
    /\ UNCHANGED order

\* Lines 51-52: return 0; the handles are destroyed at scope exit, and
\* ~thread() calls std::terminate() when the handle is still joinable.
Return ==
    /\ status = "running" /\ mpc = <<"return", 0>>
    /\ status' = IF \E k \in Workers : joinable[k] THEN "aborted" ELSE "exit0"
    /\ mpc' = <<"done", 0>>
    /\ UNCHANGED <<joinable, wvars, cur, lines, mixed>>
    /\ UNCHANGED order

\* ---------------------------------------------------------------- system
InitWith(l) ==
    /\ mpc = <<"t", 1>>
    /\ status = "running"
    /\ joinable = [k \in Workers |-> FALSE]
    /\ pc = [k \in Workers |-> "created"]
    /\ id = [k \in Workers |-> 0]
    /\ i = [k \in Workers |-> 0]
    /\ frag = [k \in Workers |-> 0]
    /\ starting = [k \in Workers |-> 0]
    /\ ending = [k \in Workers |-> 0]
    /\ duration = [k \in Workers |-> 0]
    /\ clock = [k \in Workers |-> 0]
    /\ load = l
    /\ cur = <<>>
    /\ lines = [p \in Prefixes |-> 0]
    /\ mixed = FALSE
    /\ log = [k \in Workers |-> <<>>]
    /\ order = <<>>

\* Every wake-up is on time.
Init == InitWith(0)

\* The wake-ups of the run are late by one of the explored amounts.
TimedInit == \E l \in Lateness : InitWith(l)

WorkerStep(w) ==
    \/ Start(w)
    \/ Notice(w)
    \/ Yield(w)
    \/ Sleep(w)
    \/ End(w)
    \/ Summary(w)

MainStep ==
    \/ \E k \in Workers : Launch(k)
    \/ \E k \in Workers : LaunchFails(k)
    \/ \E k \in Workers : Join(k)
    \/ Return

Next == MainStep \/ \E w \in Workers : WorkerStep(w)

Spec == Init /\ [][Next]_vars

\* The operating system schedules every runnable thread again and again.
Fairness == WF_vars(MainStep) /\ \A w \in Workers : WF_vars(WorkerStep(w))

FairSpec == Spec /\ Fairness

TimedSpec == TimedInit /\ [][Next]_vars
\* ================================================================ properties
\* What thread w has done so far, counted from its log.
Count(seq, x) == Cardinality({p \in DOMAIN seq : seq[p] = x})
Notices(w) == Count(log[w], "notice")
Sleeps(w) == Count(log[w], "sleep")
Summaries(w) == Count(log[w], "summary")

RECURSIVE SumOver(_, _)
SumOver(f, S) ==
    IF S = {} THEN 0
    ELSE LET x == CHOOSE y \in S : TRUE IN f[x] + SumOver(f, S \ {x})

MainReturned == mpc = <<"done", 0>>
AllCompleted == \A w \in Workers : pc[w] = "done"
LaunchFailed == status = "aborted" /\ mpc[1] = "t"

\* ---------------------------------------------------------------- C1
\* C1: join-before-exit.  In every state in which main has returned, each
\* of the ids 1, 2, 3 has a worker that has written its whole summary line.
C1_JoinBeforeExit ==
    MainReturned =>
        \A k \in 1..3 :
            \E w \in Workers :
                id[w] = k /\ Summaries(w) = 1 /\ pc[w] = "done" /\ frag[w] = 0

C1_Witness == MainReturned /\ status = "exit0"

\* ---------------------------------------------------------------- C2
\* C2 as stated: under fair scheduling every run reaches the state in which
\* all three workers are Completed and main has returned.
C2_Original == <>(status = "exit0" /\ AllCompleted)

\* C2, amended: under fair scheduling every run in which the three thread
\* constructors succeed reaches the state in which all three workers are
\* Completed and main has returned; the only other runs are those ended by a
\* failed thread creation.
C2_Terminates == <>((status = "exit0" /\ AllCompleted) \/ LaunchFailed)

C2_Witness == status = "exit0" /\ AllCompleted /\ MainReturned

\* ---------------------------------------------------------------- C3
\* C3: the worker with id 1 never has emitted more than 10 yield notices and
\* has emitted exactly 10 once its loop is over; the workers with ids 2 and 3
\* never emit any part of a yield notice.
C3_YieldNotices ==
    \A w \in Workers :
        /\ id[w] = 1 =>
             /\ Notices(w) <= 10
             /\ pc[w] \in {"end", "summary", "done"} => Notices(w) = 10
        /\ id[w] # 1 =>
             /\ Notices(w) = 0
             /\ pc[w] \notin {"notice", "yield"}

C3_Witness ==
    /\ AllCompleted
    /\ \E w \in Workers : id[w] = 1 /\ Notices(w) = 10
    /\ \E w \in Workers : id[w] = 2 /\ Notices(w) = 0
    /\ \E w \in Workers : id[w] = 3 /\ Notices(w) = 0

\* ---------------------------------------------------------------- C4
\* C4: each worker emits at most one summary line and exactly one once it is
\* finished, and only after its loop has run 10 times (10 sleeps); the thread
\* of handle t<k> carries the id k that main passed, so no two workers share
\* an id and no id has two summary emissions.
C4_OneSummary ==
    /\ \A w \in Workers :
         /\ Summaries(w) <= 1
         /\ pc[w] = "done" => Summaries(w) = 1
         /\ pc[w] # "created" => id[w] = w /\ id[w] \in 1..3
         /\ (pc[w] \in {"summary", "done"} \/ Summaries(w) > 0) =>
              i[w] = 10 /\ Sleeps(w) = 10
    /\ \A w, v \in Workers :
         (w # v /\ pc[w] # "created" /\ pc[v] # "created") => id[w] # id[v]

C4_Witness ==
    /\ AllCompleted
    /\ \A k \in 1..3 : \E w \in Workers : id[w] = k /\ Summaries(w) = 1

\* ---------------------------------------------------------------- C5
TotalLines == SumOver(lines, Prefixes)

\* The multiset of line prefixes the claim names.
ExpectedLines ==
    [p \in Prefixes |->
        IF p = <<"yielding", 1>> THEN 10
        ELSE IF p[1] = "finished" THEN 1
        ELSE 0]

\* C5 as stated: when the program has ended, the lines of the output are
\* exactly 10 "Thread 1 is yielding..." and one "Thread k finished..." for
\* each k, whatever the interleaving.
C5_Original == status = "exit0" => lines = ExpectedLines

\* C5, amended: when the program has ended, whatever the interleaving, task 1
\* has emitted 10 yield notices and each task one summary, and the output
\* holds 13 complete lines and no unfinished one.  The lines read as the
\* multiset the claim names in the runs in which no fragment was inserted
\* into a line holding another task's text; in the other runs at least one
\* line is a mixture of fragments of different tasks.
C5_LineCounts ==
    status = "exit0" =>
        /\ cur = <<>>
        /\ TotalLines = 13
        /\ \A w \in Workers :
             /\ Summaries(w) = 1
             /\ Notices(w) = (IF id[w] = 1 THEN 10 ELSE 0)
        /\ ~mixed => lines = ExpectedLines
        /\ mixed => lines[<<"garbled", 0>>] > 0

C5_Witness == status = "exit0" /\ ~mixed /\ lines = ExpectedLines

\* ---------------------------------------------------------------- C6
\* What worker(idv) does, in order: (notice, yield, sleep) x 10 for id 1,
\* sleep x 10 for the others, then the summary.
ExpectedLog(idv) ==
    IF idv = 1
      THEN [p \in 1..31 |->
              IF p = 31 THEN "summary"
              ELSE IF (p - 1) % 3 = 0 THEN "notice"
              ELSE IF (p - 1) % 3 = 1 THEN "yield"
              ELSE "sleep"]
      ELSE [p \in 1..11 |-> IF p = 11 THEN "summary" ELSE "sleep"]

IsPrefix(a, b) == Len(a) <= Len(b) /\ a = SubSeq(b, 1, Len(a))

\* C6: in every interleaving, what a task has done so far is an initial part
\* of its fixed order: for task 1 the notice of iteration i, then the yield,
\* then the sleep of iteration i, then the notice of iteration i+1, and the
\* summary after the 10th sleep.
C6_TaskOrder ==
    \A w \in Workers :
        pc[w] # "created" => IsPrefix(log[w], ExpectedLog(id[w]))

C6_Witness ==
    /\ \E w \in Workers : id[w] = 1 /\ log[w] = ExpectedLog(1)
    /\ \E w \in Workers : id[w] # 1 /\ pc[w] \notin {"created", "done"}

\* ---------------------------------------------------------------- C7
\* C7 as stated: the process never ends other than with exit code 0.
C7_Original == status \in {"running", "exit0"}

\* C7, amended: whenever main returns the exit code is 0, and the only other
\* way the process ends is the abnormal termination after a thread
\* constructor has failed.
C7_ExitCode ==
    /\ MainReturned => status = "exit0"
    /\ status = "aborted" => LaunchFailed
    /\ status = "exit0" => MainReturned

C7_Witness == status = "exit0"

\* ---------------------------------------------------------------- C8
\* Normal scheduling: over the ten iterations a task runs less than 500 ms
\* behind its ten requested sleeps.
NormalScheduling == 10 * load < (1500 - 1000) * NsPerMs

\* C8: the elapsed value a task reports is non-negative, at least 1000, and,
\* under normal scheduling, below 1500.
C8_Elapsed ==
    \A w \in Workers :
        pc[w] \in {"summary", "done"} =>
            /\ duration[w] >= 0
            /\ duration[w] >= 1000
            /\ NormalScheduling => duration[w] < 1500

C8_Witness ==
    /\ NormalScheduling
    /\ AllCompleted
    /\ \A w \in Workers : duration[w] = 1499

\* ---------------------------------------------------------------- C9
\* The workers that have written some but not all fragments of a line.
MidLine == {w \in Workers : frag[w] > 0}

\* The line worker w is writing (w at line 27 or line 39) and what it reads as.
CurLine(w) ==
    IF pc[w] = "notice" THEN NoticeLine(id[w])
    ELSE SummaryLine(id[w], duration[w])
OwnPrefix(w) ==
    IF pc[w] = "notice" THEN <<"yielding", id[w]>> ELSE <<"finished", id[w]>>

Emissions == [w \in Workers |-> Notices(w) + Summaries(w)]

\* C9 as stated: no worker writes a fragment between the first and the last
\* fragment of another worker's line, and every complete line of the output
\* is a whole line of one task.
C9_Original ==
    /\ Cardinality(MidLine) <= 1
    /\ lines[<<"garbled", 0>>] = 0

\* C9, amended: a line is 3 (notice) or 5 (summary) separate insertions, and
\* insertions of other workers can fall between them.  What holds is: as long
\* as no fragment was inserted into a line holding another task's text, the
\* complete lines are exactly the lines the workers have emitted; every
\* emission ends exactly one line of the output; the unfinished line is empty
\* when no worker is inside a line and, when one worker alone is, it is a run
\* of that worker's latest fragments in order; and a worker that writes its
\* last fragment onto exactly its own earlier fragments completes a whole
\* line of its own.
C9_Inv ==
    /\ ~mixed =>
         /\ lines[<<"garbled", 0>>] = 0
         /\ \A w \in Workers :
              pc[w] # "created" =>
                 /\ lines[<<"yielding", id[w]>>] = Notices(w)
                 /\ lines[<<"finished", id[w]>>] = Summaries(w)
    /\ TotalLines = SumOver(Emissions, Workers)
    /\ Len(cur) <= SumOver(frag, Workers)
    /\ MidLine = {} => cur = <<>>
    /\ \A w \in Workers :
         MidLine = {w} =>
            \E a \in 1..(frag[w] + 1) : cur = SubSeq(CurLine(w), a, frag[w])

C9_Act ==
    \A w \in Workers :
        (/\ frag[w] > 0
         /\ frag'[w] = 0
         /\ cur = SubSeq(CurLine(w), 1, frag[w]))
        => lines' = [lines EXCEPT ![OwnPrefix(w)] = @ + 1]

\* C9, amended (as above): C9_Inv holds in every state and C9_Act of every step.
C9_Fragments == [](C9_Inv) /\ [][C9_Act]_vars

\* Two workers inside a line at once, a mixed line and a whole line.
C9_Witness ==
    /\ Cardinality(MidLine) >= 2
    /\ lines[<<"garbled", 0>>] > 0
    /\ lines[<<"yielding", 1>>] > 0

\* ---------------------------------------------------------------- C10
TaskState(w) ==
    IF pc[w] = "created" THEN "Created"
    ELSE IF pc[w] = "done" THEN "Completed"
    ELSE "Running"

C10_Inv ==
    \A w \in Workers :
        /\ TaskState(w) \in {"Created", "Running", "Completed"}
        /\ TaskState(w) = "Created" => log[w] = <<>> /\ ~joinable[w]
        /\ TaskState(w) = "Completed" =>
             /\ Sleeps(w) = 10
             /\ Summaries(w) = 1
             /\ log[w][Len(log[w])] = "summary"

C10_Act ==
    \A w \in Workers :
        /\ TaskState(w)' # TaskState(w) =>
             \/ /\ TaskState(w) = "Created" /\ TaskState(w)' = "Running"
                /\ mpc = <<"t", w>> /\ mpc' # mpc
             \/ /\ TaskState(w) = "Running" /\ TaskState(w)' = "Completed"
        /\ TaskState(w) = "Completed" =>
             /\ pc'[w] = pc[w] /\ log'[w] = log[w] /\ frag'[w] = frag[w]
             /\ i'[w] = i[w] /\ id'[w] = id[w]
             /\ (cur' # cur \/ lines' # lines) =>
                  \E v \in Workers \ {w} : log'[v] # log[v] \/ frag'[v] # frag[v]

\* C10: a task is always Created, Running or Completed; it goes from Created
\* to Running only by main's launch and from Running to Completed, and makes
\* no other change of state; a Completed task takes no further step and
\* writes nothing more; a task is Completed only with exactly 10 sleeps done
\* and its summary emitted last.
C10_StateMachine == [](C10_Inv) /\ [][C10_Act]_vars

C10_Witness ==
    \E w, v \in Workers :
        TaskState(w) = "Completed" /\ TaskState(v) = "Running" /\ cur # <<>>

\* ---------------------------------------------------------------- C11
\* The six orders in which the three workers can return.
C11_Order123 == order = <<1, 2, 3>>
C11_Order132 == order = <<1, 3, 2>>
C11_Order213 == order = <<2, 1, 3>>
C11_Order231 == order = <<2, 3, 1>>
C11_Order312 == order = <<3, 1, 2>>
C11_Order321 == order = <<3, 2, 1>>

\* A join statement on a thread that has returned can be taken at once.
C11_Inv ==
    /\ \A k \in Workers :
         (status = "running" /\ mpc = <<"join", k>> /\ pc[k] = "done")
            => ENABLED Join(k)
    /\ (status = "running" /\ AllCompleted) => ENABLED MainStep
    /\ \A p \in DOMAIN order : pc[order[p]] = "done"
    /\ Len(order) = Cardinality({w \in Workers : pc[w] = "done"})

\* The k-th join statement returns only for handle t<k>, only when its thread
\* has returned, and goes on to the next statement whatever the others did.
C11_Act ==
    \A k \in Workers :
        (mpc = <<"join", k>> /\ (mpc' # mpc \/ status' # status)) =>
            /\ pc[k] = "done"
            /\ joinable[k] /\ ~joinable'[k]
            /\ status' = "running"
            /\ mpc' = (IF k < 3 THEN <<"join", k + 1>> ELSE <<"return", 0>>)

\* C11: joining in the order 1, 2, 3 puts no constraint on the order in which
\* the workers complete (each of the six orders is reached: C11_Order123 ..
\* C11_Order321); a join on a worker that is already Completed is enabled at
\* once and moves main to its next statement, so main is never stuck once the
\* workers are done, whatever their order.
C11_JoinOrder == [](C11_Inv) /\ [][C11_Act]_vars

\* Task 3, then task 2, then task 1 completed, and main has returned 0.
C11_Witness == C11_Order321 /\ status = "exit0"

\* ---------------------------------------------------------------- C12
Launched(w) == pc[w] # "created"

C12_Inv ==
    /\ \A k \in 1..2 : Launched(k + 1) => Launched(k)
    /\ \A k \in Workers :
         /\ mpc = <<"t", k>> =>
              \A j \in Workers : Launched(j) <=> j < k
         /\ ~Launched(k) =>
              /\ log[k] = <<>> /\ frag[k] = 0 /\ i[k] = 0 /\ id[k] = 0
              /\ starting[k] = 0 /\ clock[k] = 0
              /\ \A p \in DOMAIN order : order[p] # k
    /\ (\E k \in Workers : ~Launched(k)) => mpc[1] = "t"

C12_Act ==
    \A k \in Workers :
        (~Launched(k) /\ Launched(k)') =>
            /\ mpc = <<"t", k>>
            /\ pc'[k] = "start"
            /\ cur' = cur /\ lines' = lines

\* C12: threads are launched in the order 1, 2, 3 (task k+1 never before task
\* k), each by main's k-th constructor statement; a worker that is not yet
\* launched has taken no step and written nothing; a launched worker runs
\* while main goes on, so task 1 can be writing, or be Completed, before
\* task 2 is launched.
C12_LaunchOrder == [](C12_Inv) /\ [][C12_Act]_vars

\* Task 1 has completed and written its output while task 2 is not launched.
C12_Witness ==
    /\ pc[1] = "done" /\ Notices(1) = 10 /\ Summaries(1) = 1
    /\ ~Launched(2) /\ ~Launched(3)
    /\ status = "running"

\* ---------------------------------------------------------------- C13
C13_Inv ==
    /\ \A k \in Workers :
         (status = "running" /\ mpc = <<"t", k>>) => ENABLED LaunchFails(k)
    /\ LaunchFailed =>
         /\ \A j \in Workers : joinable[j] <=> j < mpc[2]
         /\ \A j \in Workers : Launched(j) <=> j < mpc[2]
         /\ ~ENABLED Next

C13_Act ==
    /\ \A k \in Workers :
         (mpc = <<"t", k>> /\ (mpc' # mpc \/ status' # status)) =>
            \/ Launched(k)' /\ status' = "running" /\ joinable'[k]
            \/ /\ status' = "aborted" /\ mpc' = mpc
               /\ joinable' = joinable /\ pc' = pc
               /\ cur' = cur /\ lines' = lines /\ log' = log
    /\ LaunchFailed => (vars' = vars)
    /\ (mpc'[1] \in {"join", "return", "done"} /\ mpc[1] = "t") =>
          \A j \in Workers : Launched(j)'

\* C13: at each of the three constructor statements thread creation can fail;
\* the failure ends the process at once (status "aborted"): main stays at that
\* statement for ever, so there is no retry, no join and no return 0; every
\* worker launched before is still joinable (it was never waited for) and
\* takes no further step, and main passes the constructors only with all
\* three threads launched.
C13_LaunchFailure == [](C13_Inv) /\ [][C13_Act]_vars

\* The third constructor has failed while task 1 is in its loop and task 2
\* is about to write its summary: neither is waited for.
C13_Witness ==
    /\ LaunchFailed /\ mpc = <<"t", 3>>
    /\ pc[1] \in {"notice", "yield", "sleep"} /\ i[1] > 0
    /\ pc[2] = "summary"
    /\ joinable[1] /\ joinable[2]

\* ---------------------------------------------------------------- C14
\* The program seen with the yield point merged into the statement after it.
YieldFreePc == [w \in Workers |->
                  IF pc[w] = "yield" THEN Flow("yield", id[w], i[w]) ELSE pc[w]]

YieldStep(w) == pc[w] = "yield" /\ pc'[w] # "yield"

C14_Inv ==
    \A w \in Workers :
        pc[w] = "yield" =>
            /\ w = 1 /\ id[w] = YieldId
            /\ status = "running" => ENABLED Yield(w)
            /\ ~ENABLED Start(w) /\ ~ENABLED Notice(w) /\ ~ENABLED Sleep(w)
            /\ ~ENABLED End(w) /\ ~ENABLED Summary(w)

C14_Act ==
    \A w \in Workers :
        YieldStep(w) =>
            /\ pc' = [pc EXCEPT ![w] = "sleep"]
            /\ log' = [log EXCEPT ![w] = Append(@, "yield")]
            /\ YieldFreePc' = YieldFreePc
            /\ (ENABLED MainStep)' <=> ENABLED MainStep
            /\ \A o \in Workers \ {w} :
                 (ENABLED WorkerStep(o))' <=> ENABLED WorkerStep(o)
            /\ UNCHANGED <<mpc, status, joinable, id, i, frag, starting,
                           ending, duration, clock, load, cur, lines, mixed,
                           order>>

\* C14: the yield of task 1 never blocks and has no effect: whenever task 1
\* is at its yield call in the running process the step can be taken,
\* whatever tasks 2 and 3 and main are doing; it is the only step task 1 can
\* take there; it moves task 1 on to its sleep and changes nothing else (the
\* output stream included), and it neither enables nor disables any step of
\* main or of another task, so that a yield step is a stuttering step of the
\* program in which the yield is a no-op.
C14_YieldNoEffect == [](C14_Inv) /\ [][C14_Act]_vars

\* Task 1 has yielded before and is at its yield call again while main has
\* not yet constructed t2.
C14_Witness ==
    /\ pc[1] = "yield" /\ Count(log[1], "yield") >= 1
    /\ mpc = <<"t", 2>> /\ status = "running"
    /\ ~Launched(2) /\ ~Launched(3)

\* Task 1 is at its yield call while task 2 is in the middle of a line, task
\* 3 has finished and main is blocked in t1.join().
C14_WitnessJoin ==
    /\ pc[1] = "yield" /\ mpc = <<"join", 1>> /\ status = "running"
    /\ pc[2] = "summary" /\ frag[2] > 0 /\ pc[3] = "done"

\* ---------------------------------------------------------------- C15
\* Handle t<k> has been joined: its thread was started and it is no longer
\* joinable.
Joined(k) == Launched(k) /\ ~joinable[k]

C15_Inv ==
    /\ \A k \in Workers :
         /\ joinable[k] => Launched(k)
         /\ (status = "running" /\ mpc = <<"join", k>>) =>
              /\ joinable[k]
              /\ \A j \in Workers : Joined(j) <=> j < k
         /\ mpc[1] = "t" => ~Joined(k)
         /\ mpc[1] \in {"return", "done"} => Joined(k)
    /\ (status = "running" /\ mpc = <<"return", 0>>) => ENABLED Return
    /\ MainReturned => status = "exit0"
    /\ status = "aborted" => LaunchFailed

C15_Act ==
    /\ \A k \in Workers :
         /\ (joinable[k] /\ ~joinable'[k]) =>
              /\ status = "running" /\ mpc = <<"join", k>>
              /\ mpc' = AfterJoin(k)
              /\ pc' = pc /\ log' = log /\ frag' = frag
              /\ \A j \in Workers \ {k} : joinable'[j] = joinable[j]
         /\ Joined(k) => Joined(k)'
    /\ (mpc = <<"return", 0>> /\ mpc' # mpc) =>
          /\ status' = "exit0"
          /\ \A k \in Workers : Joined(k)

\* C15: a handle stops being joinable only by main's own join statement for
\* it (t<k>.join() at main's k-th join, a step of main and of no worker), a
\* joined handle is never joinable again and never the target of a later
\* join, so each handle is joined at most once and, when main returns,
\* exactly once; at return no handle is joinable, so the destructors at
\* scope exit never end the process abnormally.
C15_HandleOwnership == [](C15_Inv) /\ [][C15_Act]_vars

\* Main has returned 0 with all three handles joined; task 1 was the last
\* to finish, so t2 and t3 were joined without waiting.
C15_Witness ==
    /\ MainReturned /\ status = "exit0"
    /\ \A k \in Workers : Joined(k)
    /\ C11_Order231

\* ---------------------------------------------------------------- C16
\* Everything worker w owns: its position, its parameter and its locals.
Local(w) == <<pc[w], id[w], i[w], frag[w], starting[w], ending[w],
              duration[w], clock[w], log[w]>>

Stepped == {w \in Workers : Local(w)' # Local(w)}

C16_Inv ==
    \A w \in Workers :
        /\ Launched(w) => id[w] = w
        /\ ~Launched(w) => id[w] = 0

C16_Act ==
    /\ Cardinality(Stepped) <= 1
    /\ \A w \in Workers :
         /\ Launched(w) => id'[w] = id[w]
         /\ (Launched(w) /\ w \in Stepped) =>
              /\ \A o \in Workers \ {w} : Local(o)' = Local(o)
              /\ UNCHANGED <<mpc, status, joinable, load>>
         /\ (~Launched(w) /\ w \in Stepped) =>
              /\ mpc = <<"t", w>> /\ pc'[w] = "start" /\ id'[w] = w
              /\ UNCHANGED <<cur, lines, mixed, load>>
    /\ (cur' # cur \/ lines' # lines \/ mixed' # mixed) =>
          \E w \in Workers :
              /\ Launched(w) /\ Stepped = {w}
              /\ pc[w] \in {"notice", "summary"}
    /\ Stepped = {} => UNCHANGED <<cur, lines, mixed, load>>

\* C16: a step changes the position, id, loop counter, timestamps, elapsed
\* time or emission history of at most one worker; a step of a launched
\* worker changes nothing owned by another worker or by main; the output
\* stream is written only by steps of workers (any of the three) at an
\* emission; a worker's id is set by its launch and never changes after.
C16_NoSharedState == [](C16_Inv) /\ [][C16_Act]_vars

\* Task 3 has taken its end timestamp while task 1 is inside a notice and
\* task 2 inside its summary, and the line being written holds fragments
\* of more than one task.
C16_Witness ==
    /\ pc[3] = "summary" /\ frag[3] = 0 /\ ending[3] > 0
    /\ pc[1] = "notice" /\ frag[1] > 0 /\ i[1] > 0
    /\ pc[2] = "summary" /\ frag[2] > 0
    /\ mixed

\* ---------------------------------------------------------------- C17
Yields(w) == Count(log[w], "yield")

\* C17: the thread constructed second in main (handle t2, id 2) is the one
\* that yields: it has yielded by the time it has finished, and no other
\* thread ever yields.
C17_SecondThreadYields ==
    /\ (pc[2] = "done" /\ id[2] = 2) => Yields(2) >= 1
    /\ \A w \in Workers : (Yields(w) >= 1 \/ pc[w] = "yield") => w = 2

\* What the code does instead: the thread constructed first yields, ten
\* times, and the second thread finishes without a single yield.
C17_FirstThreadYields ==
    /\ pc[1] = "done" /\ id[1] = 1 /\ Yields(1) = NumIter
    /\ pc[2] = "done" /\ id[2] = 2 /\ Yields(2) = 0
====
